---- MODULE Spec2Model ----
(***************************************************************************)
(* Model of sodiumoxide's crypto/edwards25519sha512batch.rs: the wrappers  *)
(* gen_keypair, sign and verify around the foreign signature primitive,    *)
(* the SecretKey destructor, and the callers of the file's two tests.      *)
(***************************************************************************)
EXTENDS Integers, Sequences, FiniteSets, TLC

(* ---- program constants (lines 24-26) ---- *)
SECRETKEYBYTES == 64
PUBLICKEYBYTES == 32
SIGNATUREBYTES == 64

(* ---- bounds of the model ---- *)
MaxLen == 1
NumSeeds == 2

SampleBytes == {0, 255}
Masks == {1, 32}
ShortLens == {0, 1, SIGNATUREBYTES - 1}

Seeds == 1..NumSeeds

(* two threads, the least number that can interleave *)
Threads == {1, 2}

RECURSIVE SeqsUpTo(_)
SeqsUpTo(n) ==
    IF n = 0 THEN {<<>>}
    ELSE LET shorter == SeqsUpTo(n - 1)
         IN shorter \cup {Append(s, b) : s \in {x \in shorter : Len(x) = n - 1}, b \in SampleBytes}

Msgs == SeqsUpTo(MaxLen)

(* from_elem(n, 0u8) and [0u8, ..n] *)
Zeros(n) == [i \in 1..n |-> 0]

(* b ^ mask for a one-bit mask, on u8 *)
XorBit(b, mask) == IF (b \div mask) % 2 = 1 THEN b - mask ELSE b + mask

(* sm[j] ^= mask (lines 126, 128) *)
FlipAt(s, j, mask) == [s EXCEPT ![j] = XorBit(s[j], mask)]

(* Vec::truncate: shortens to n elements, no effect when n >= len *)
Truncate(s, n) == IF n < Len(s) THEN SubSeq(s, 1, n) ELSE s

(***************************************************************************)
(* The foreign primitive (extern block, lines 8-22).  Its body is not part *)
(* of the repository; it is modelled by its contract: a deterministic key  *)
(* derivation from the drawn entropy, a signed message laid out as         *)
(* R(32) ++ m ++ S(32) whose 64 signature bytes depend on the public key   *)
(* and on every byte of the message, and an open that rejects inputs       *)
(* shorter than 64 bytes and every input that is not such a signed message.*)
(***************************************************************************)
RECURSIVE Fold(_, _)
Fold(m, i) == IF i > Len(m) THEN 0 ELSE (m[i] + Fold(m, i + 32)) % 256

PkOf(sk) == [i \in 1..PUBLICKEYBYTES |-> (sk[i] * 5 + sk[i + 32] + 1) % 256]

SkOfSeed(seed) == [i \in 1..SECRETKEYBYTES |-> (seed * 67 + i * 13) % 256]

SigR(m, pk) == [i \in 1..32 |-> (pk[i] + Fold(m, i) + Len(m)) % 256]
SigS(m, pk) == [i \in 1..32 |-> (pk[i] * 3 + Fold(m, i) * 7 + 11) % 256]
SignedWith(m, pk) == SigR(m, pk) \o m \o SigS(m, pk)

(* crypto_sign_edwards25519sha512batch_keypair: status 0 fills pk and sk *)
crypto_keypair(pk, sk, seed, status) ==
    IF status = 0
    THEN [pk |-> PkOf(SkOfSeed(seed)), sk |-> SkOfSeed(seed), status |-> 0]
    ELSE [pk |-> pk, sk |-> sk, status |-> status]

(* crypto_sign_edwards25519sha512batch: status 0 writes sm and smlen *)
crypto_sign(sm, smlen, m, sk, status) ==
    IF status = 0
    THEN [sm |-> SignedWith(m, PkOf(sk)), smlen |-> Len(m) + 64, status |-> 0]
    ELSE [sm |-> sm, smlen |-> smlen, status |-> status]

(* crypto_sign_edwards25519sha512batch_open: on success the message is at   *)
(* the front of m, the rest of m is scratch, and mlen = smlen - 64          *)
crypto_open(m, mlen, sm, pk) ==
    IF Len(sm) < 64
    THEN [m |-> m, mlen |-> mlen, status |-> -1]
    ELSE LET msg == SubSeq(sm, 33, Len(sm) - 32)
         IN IF sm = SignedWith(msg, pk)
            THEN [m |-> msg \o SubSeq(sm, Len(msg) + 1, Len(sm)),
                  mlen |-> Len(sm) - 64, status |-> 0]
            ELSE [m |-> m, mlen |-> mlen, status |-> -1]

(***************************************************************************)
(* A frame holds the locals of one call.  It is one record for the three   *)
(* functions: pk[32], sk[64], the vectors m and sm, the two lengths and    *)
(* the primitive's status; what a function does not declare stays zero.    *)
(***************************************************************************)
NoFrame == [op |-> "none", pk |-> Zeros(PUBLICKEYBYTES), sk |-> Zeros(SECRETKEYBYTES),
            m |-> <<>>, sm |-> <<>>, mlen |-> 0, smlen |-> 0, status |-> 0]

(***************************************************************************)
(* gen_keypair (lines 54-62), statement by statement on its frame.         *)
(***************************************************************************)
(* let mut pk = [0u8, ..PUBLICKEYBYTES]; let mut sk = [0u8, ..SECRETKEYBYTES]; *)
GenEnter == [NoFrame EXCEPT !.op = "gen_keypair"]

GenCall(f, seed, status) ==
    LET r == crypto_keypair(f.pk, f.sk, seed, status)
    IN [f EXCEPT !.pk = r.pk, !.sk = r.sk, !.status = r.status]

(* (PublicKey(pk), SecretKey(sk)): the status is dropped, the arrays are   *)
(* copied into the returned pair                                           *)
GenRet(f) == [kind |-> "Pair", pk |-> f.pk, sk |-> f.sk]

gen_keypair(seed, status) == GenRet(GenCall(GenEnter, seed, status))

(***************************************************************************)
(* sign (lines 68-81).  The pattern &SecretKey(sk) binds sk by value: the  *)
(* frame holds its own copy of the 64 key bytes.                           *)
(***************************************************************************)
SignEnter(m, skbuf) ==
    [NoFrame EXCEPT !.op = "sign", !.m = m, !.sk = skbuf,
                    !.sm = Zeros(Len(m) + SIGNATUREBYTES), !.smlen = 0]

SignCall(f, status) ==
    LET r == crypto_sign(f.sm, f.smlen, f.m, f.sk, status)
    IN [f EXCEPT !.sm = r.sm, !.smlen = r.smlen, !.status = r.status]

(* sm.truncate(smlen as uint); sm *)
SignRetShort(f) == [kind |-> "Vec", val |-> Truncate(f.sm, Len(f.m))]
SignRet(f) == [kind |-> "Vec", val |-> Truncate(f.sm, f.smlen)]

sign(m, skbuf, status) == SignRet(SignCall(SignEnter(m, skbuf), status))

(***************************************************************************)
(* verify (lines 88-104).                                                  *)
(***************************************************************************)
VerifyEnter(sm, pkbuf) ==
    [NoFrame EXCEPT !.op = "verify", !.sm = sm, !.pk = pkbuf,
                    !.m = Zeros(Len(sm)), !.mlen = 0]

VerifyCall(f) ==
    LET r == crypto_open(f.m, f.mlen, f.sm, f.pk)
    IN [f EXCEPT !.m = r.m, !.mlen = r.mlen, !.status = r.status]

VerifyRetNoTruncate(f) ==
    IF f.status = 0
    THEN [kind |-> "Some", val |-> f.m]
    ELSE [kind |-> "None"]
VerifyRetUnchecked(f) == [kind |-> "Some", val |-> Truncate(f.m, f.mlen)]
VerifyRet(f) ==
    IF f.status = 0
    THEN [kind |-> "Some", val |-> Truncate(f.m, f.mlen)]
    ELSE [kind |-> "None"]

verify(sm, pkbuf) == VerifyRet(VerifyCall(VerifyEnter(sm, pkbuf)))

(* Drop for SecretKey (lines 35-40): for e in buf.mut_iter() { *e = 0 } *)
drop(buf) == [i \in 1..Len(buf) |-> 0]

(* every call has its own frame: its locals and its from_elem buffers are  *)
(* fresh (lines 56-57, 71-72, 91-92)                                       *)
FrameOfShared(t) == 1
FrameOf(t) == t

(***************************************************************************)
(* State.  The caller is the body of the file's tests (lines 106-131): one *)
(* keypair (pk, sk), one message m, its signed message sm, which the       *)
(* tamper test flips a bit of and flips back.  Threads call the three      *)
(* functions on the caller's values, which they borrow.                    *)
(***************************************************************************)
VARIABLES
    initialized,   \* sodiumoxide::init() has completed
    mayFail,       \* the primitive provider may report a nonzero status
    sk,            \* the caller's SecretKey: [state, buf]
    pk,            \* the caller's PublicKey: [state, buf]
    residue,       \* key arrays left behind in the frames of finished calls
    m,             \* the caller's message
    sm,            \* the caller's signed message buffer
    signer,        \* the PublicKey paired with the key that signed sm
    flip,          \* the bit of sm that is flipped: [j, mask, on, rejected, restored]
    last,          \* the caller's last call of gen_keypair, sign or verify
    pc,            \* per thread: "idle", "entered", "called", "done"
    frames,        \* the frames of the calls in flight
    call,          \* per thread: the call it is making and its arguments
    rets           \* per thread: the value its call returned

cvars == <<initialized, mayFail, sk, pk, residue, m, sm, signer, flip, last>>
tvars == <<pc, frames, call, rets>>
vars == <<initialized, mayFail, sk, pk, residue, m, sm, signer, flip, last,
          pc, frames, call, rets>>

NoFlip == [j |-> 0, mask |-> 0, on |-> FALSE, rejected |-> FALSE, restored |-> FALSE]
NoRet == [kind |-> "Unit"]
NoCall == [op |-> "none", init |-> FALSE, status |-> 0, ret |-> NoRet,
           m |-> <<>>, sm |-> <<>>, key |-> <<>>, src |-> "-", paired |-> FALSE]
NoArgs == [op |-> "none", seed |-> 0, status |-> 0, m |-> <<>>, sm |-> <<>>, key |-> <<>>]

Statuses == IF mayFail THEN {0, -1} ELSE {0}

Quiescent == \A t \in Threads : pc[t] = "idle"

InitCommon ==
    /\ initialized = FALSE
    /\ sk = [state |-> "none", buf |-> <<>>]
    /\ pk = [state |-> "none", buf |-> <<>>]
    /\ residue = {}
    /\ m = <<>>
    /\ sm = <<>>
    /\ signer = <<>>
    /\ flip = NoFlip
    /\ last = NoCall
    /\ pc = [t \in Threads |-> "idle"]
    /\ frames = [t \in Threads |-> NoFrame]
    /\ call = [t \in Threads |-> NoArgs]
    /\ rets = [t \in Threads |-> NoRet]

Init == InitCommon /\ mayFail = FALSE

FaultInit == InitCommon /\ mayFail = TRUE

(* sodiumoxide::init(), named by the doc comment at lines 50-52 *)
SodiumInit ==
    /\ ~initialized
    /\ initialized' = TRUE
    /\ UNCHANGED <<mayFail, sk, pk, residue, m, sm, signer, flip, last>>
    /\ UNCHANGED tvars

(* let (pk, sk) = gen_keypair();  (lines 110, 122).  The keypair of the    *)
(* previous loop iteration has gone out of scope.                          *)
GenKeypair(seed, status) ==
    LET f == GenCall(GenEnter, seed, status)
        r == GenRet(f)
    IN /\ Quiescent
       /\ sk.state # "live"
       /\ sk' = [state |-> "live", buf |-> r.sk]
       /\ pk' = [state |-> "live", buf |-> r.pk]
       /\ residue' = residue \cup {f.sk}
       /\ last' = [NoCall EXCEPT !.op = "gen_keypair", !.init = initialized,
                                 !.status = f.status, !.ret = r]
       /\ UNCHANGED <<initialized, mayFail, m, sm, signer, flip>>
       /\ UNCHANGED tvars

(* let m = randombytes(i); let sm = sign(m, &sk);  (lines 111-112, 123-124) *)
Sign(msg, status) ==
    LET f == SignCall(SignEnter(msg, sk.buf), status)
        r == SignRet(f)
    IN /\ Quiescent
       /\ sk.state = "live"
       /\ m' = msg
       /\ sm' = r.val
       /\ signer' = pk.buf
       /\ flip' = NoFlip
       /\ residue' = residue \cup {f.sk}
       /\ last' = [NoCall EXCEPT !.op = "sign", !.init = initialized,
                                 !.status = f.status, !.ret = r,
                                 !.m = msg, !.key = sk.buf]
       /\ UNCHANGED <<initialized, mayFail, sk, pk>>
       /\ UNCHANGED tvars

(* sm[j] ^= 0x20;  (line 126) *)
Tamper(j, mask) ==
    /\ ~flip.on
    /\ j \in 1..Len(sm)
    /\ sm' = FlipAt(sm, j, mask)
    /\ flip' = [NoFlip EXCEPT !.j = j, !.mask = mask, !.on = TRUE]
    /\ last' = NoCall
    /\ UNCHANGED <<initialized, mayFail, sk, pk, residue, m, signer>>
    /\ UNCHANGED tvars

(* sm[j] ^= 0x20;  (line 128) *)
Restore ==
    /\ flip.on
    /\ sm' = FlipAt(sm, flip.j, flip.mask)
    /\ flip' = [NoFlip EXCEPT !.rejected = flip.rejected, !.restored = TRUE]
    /\ last' = NoCall
    /\ UNCHANGED <<initialized, mayFail, sk, pk, residue, m, signer>>
    /\ UNCHANGED tvars

(* verify(sm, &pk)  (lines 113, 127) *)
VerifySigned ==
    LET f == VerifyCall(VerifyEnter(sm, pk.buf))
        r == VerifyRet(f)
    IN /\ pk.state = "live"
       /\ signer # <<>>
       /\ last' = [NoCall EXCEPT !.op = "verify", !.init = initialized,
                                 !.ret = r, !.status = f.status,
                                 !.m = m, !.sm = sm, !.key = pk.buf,
                                 !.src = IF flip.on THEN "tampered"
                                         ELSE IF flip.restored THEN "restored"
                                         ELSE "signed",
                                 !.paired = (signer = pk.buf)]
       /\ flip' = IF flip.on /\ r.kind = "None"
                  THEN [flip EXCEPT !.rejected = TRUE] ELSE flip
       /\ UNCHANGED <<initialized, mayFail, sk, pk, residue, m, sm, signer>>
       /\ UNCHANGED tvars

(* verify on a byte sequence shorter than a signature *)
ShortInputs ==
    {[i \in 1..n |-> b] : n \in ShortLens, b \in SampleBytes}
        \cup {SubSeq(sm, 1, n) : n \in {x \in ShortLens : x <= Len(sm)}}

VerifyShort(s) ==
    LET f == VerifyCall(VerifyEnter(s, pk.buf))
    IN /\ pk.state = "live"
       /\ last' = [NoCall EXCEPT !.op = "verify", !.init = initialized,
                                 !.ret = VerifyRet(f), !.status = f.status,
                                 !.m = m, !.sm = s, !.key = pk.buf, !.src = "short"]
       /\ UNCHANGED <<initialized, mayFail, sk, pk, residue, m, sm, signer, flip>>
       /\ UNCHANGED tvars

(* the SecretKey goes out of scope, at the end of the block (lines 115,    *)
(* 130) or while the task unwinds: Drop::drop runs on its storage (lines   *)
(* 35-40).  The stores of line 38 are plain writes to storage that is      *)
(* released right after: a build keeps them (kept) or removes them as      *)
(* dead, and then the released storage still reads as the key.             *)
DropSecretKey(kept) ==
    /\ Quiescent
    /\ sk.state = "live"
    /\ sk' = [state |-> "released", buf |-> IF kept THEN drop(sk.buf) ELSE sk.buf]
    /\ UNCHANGED <<initialized, mayFail, pk, residue, m, sm, signer, flip, last>>
    /\ UNCHANGED tvars

(***************************************************************************)
(* A thread's call, one statement at a time.  The thread borrows the       *)
(* caller's values; the caller changes none of them while a call is in     *)
(* flight (Quiescent above).  Threads run after sodiumoxide::init(), as    *)
(* the doc comment at lines 50-52 asks.                                    *)
(***************************************************************************)
Enter(t, c, f) ==
    /\ initialized
    /\ pc[t] = "idle"
    /\ pc' = [pc EXCEPT ![t] = "entered"]
    /\ call' = [call EXCEPT ![t] = c]
    /\ frames' = [frames EXCEPT ![FrameOf(t)] = f]
    /\ UNCHANGED rets
    /\ UNCHANGED cvars

ThreadGenEnter(t) ==
    Enter(t, [NoArgs EXCEPT !.op = "gen_keypair"], GenEnter)

ThreadSignEnter(t) ==
    /\ sk.state = "live"
    /\ Enter(t, [NoArgs EXCEPT !.op = "sign", !.m = m, !.key = sk.buf],
             SignEnter(m, sk.buf))

ThreadVerifyEnter(t) ==
    /\ pk.state = "live"
    /\ signer # <<>>
    /\ Enter(t, [NoArgs EXCEPT !.op = "verify", !.sm = sm, !.key = pk.buf],
             VerifyEnter(sm, pk.buf))

ThreadCall(t, seed, status) ==
    LET f == frames[FrameOf(t)]
        op == call[t].op
    IN /\ pc[t] = "entered"
       /\ pc' = [pc EXCEPT ![t] = "called"]
       /\ call' = [call EXCEPT ![t].seed = IF op = "gen_keypair" THEN seed ELSE 0,
                               ![t].status = IF op = "verify" THEN 0 ELSE status]
       /\ frames' = [frames EXCEPT ![FrameOf(t)] =
                        CASE op = "gen_keypair" -> GenCall(f, seed, status)
                          [] op = "sign" -> SignCall(f, status)
                          [] op = "verify" -> VerifyCall(f)]
       /\ UNCHANGED rets
       /\ UNCHANGED cvars

ThreadRet(t) ==
    LET f == frames[FrameOf(t)]
        op == call[t].op
    IN /\ pc[t] = "called"
       /\ pc' = [pc EXCEPT ![t] = "done"]
       /\ rets' = [rets EXCEPT ![t] =
                        CASE op = "gen_keypair" -> GenRet(f)
                          [] op = "sign" -> SignRet(f)
                          [] op = "verify" -> VerifyRet(f)]
       /\ frames' = [frames EXCEPT ![FrameOf(t)] = NoFrame]
       /\ residue' = IF op = "verify" THEN residue ELSE residue \cup {f.sk}
       /\ UNCHANGED call
       /\ UNCHANGED <<initialized, mayFail, sk, pk, m, sm, signer, flip, last>>

(* the thread is done with the result and with what it borrowed *)
ThreadLeave(t) ==
    /\ pc[t] = "done"
    /\ pc' = [pc EXCEPT ![t] = "idle"]
    /\ call' = [call EXCEPT ![t] = NoArgs]
    /\ rets' = [rets EXCEPT ![t] = NoRet]
    /\ UNCHANGED frames
    /\ UNCHANGED cvars

Next ==
    \/ SodiumInit
    \/ \E seed \in Seeds, st \in Statuses : GenKeypair(seed, st)
    \/ \E msg \in Msgs, st \in Statuses : Sign(msg, st)
    \/ VerifySigned
    \/ \E s \in ShortInputs : VerifyShort(s)
    \/ \E kept \in BOOLEAN : DropSecretKey(kept)

Spec == Init /\ [][Next]_vars

(* the same calls over a primitive provider that may report failure *)
FaultSpec == FaultInit /\ [][Next]_vars

(* test_sign_verify_tamper (lines 118-131).  The inner loop (125-129)     *)
(* flips bits of the signed message of this iteration, while its keypair   *)
(* is in scope; the body ends (130), every flipped bit flipped back, with  *)
(* the drop of the SecretKey.                                              *)
TestTamper(j, mask) ==
    /\ sk.state = "live"
    /\ signer = pk.buf
    /\ Tamper(j, mask)

TestEndOfBody(kept) ==
    /\ ~flip.on
    /\ DropSecretKey(kept)

TamperNext ==
    \/ \E seed \in Seeds, st \in Statuses : GenKeypair(seed, st)
    \/ \E msg \in Msgs, st \in Statuses : Sign(msg, st)
    \/ \E j \in 1..(MaxLen + SIGNATUREBYTES), mask \in Masks : TestTamper(j, mask)
    \/ Restore
    \/ VerifySigned
    \/ \E kept \in BOOLEAN : TestEndOfBody(kept)

TamperSpec == Init /\ [][TamperNext]_vars

(* the three functions called from several threads *)
ConcNext ==
    \/ SodiumInit
    \/ \E seed \in Seeds, st \in Statuses : GenKeypair(seed, st)
    \/ \E msg \in Msgs, st \in Statuses : Sign(msg, st)
    \/ \E t \in Threads : ThreadGenEnter(t)
    \/ \E t \in Threads : ThreadSignEnter(t)
    \/ \E t \in Threads : ThreadVerifyEnter(t)
    \/ \E t \in Threads, seed \in Seeds, st \in Statuses : ThreadCall(t, seed, st)
    \/ \E t \in Threads : ThreadRet(t)
    \/ \E t \in Threads : ThreadLeave(t)

ConcSpec == Init /\ [][ConcNext]_vars

(***************************************************************************)
(* Properties                                                              *)
(***************************************************************************)

(* C1: round trip.  Whenever the caller verifies the untouched signed      *)
(* message sign(m, sk) with the public key generated together with sk, the *)
(* result is Some(m), byte for byte, the empty message included.           *)
RoundTrip ==
    (last.op = "verify" /\ last.src = "signed" /\ last.paired)
        => last.ret = [kind |-> "Some", val |-> last.m]

RoundTripWitness ==
    /\ last.op = "verify" /\ last.src = "signed" /\ last.paired
    /\ Len(last.m) = MaxLen
    /\ last.ret.kind = "Some"

(* C2: tamper sensitivity.  Verifying the signed message with one bit of   *)
(* one byte flipped gives None; verifying it after the same bit is flipped *)
(* back gives Some(m) again.                                               *)
TamperDetected ==
    (last.op = "verify" /\ last.paired)
        => /\ last.src = "tampered" => last.ret = [kind |-> "None"]
           /\ last.src = "restored" => last.ret = [kind |-> "Some", val |-> last.m]

TamperWitness ==
    /\ last.op = "verify" /\ last.paired /\ last.src = "restored"
    /\ flip.rejected
    /\ last.ret.kind = "Some"

(* C3: zeroization.  Once the SecretKey has been dropped, its storage is   *)
(* 64 zero bytes when it is released.                                      *)
Zeroized ==
    sk.state = "released"
        => /\ Len(sk.buf) = SECRETKEYBYTES
           /\ \A i \in 1..SECRETKEYBYTES : sk.buf[i] = 0

(* C4: no copies of the secret.  When no SecretKey is alive, no storage    *)
(* that gen_keypair or sign used holds non-zero key bytes.                 *)
NoSecretResidue ==
    sk.state # "live" => \A b \in residue : b = Zeros(SECRETKEYBYTES)

(* C5: length.  The vector sign returns for m is len(m) + SIGNATUREBYTES   *)
(* long.                                                                   *)
SignLength ==
    last.op = "sign" => Len(last.ret.val) = Len(last.m) + SIGNATUREBYTES

SignLengthWitness ==
    /\ last.op = "sign"
    /\ Len(last.m) = MaxLen
    /\ last.ret.val # Zeros(MaxLen + SIGNATUREBYTES)

(* C6: a nonzero status of the signing primitive reaches the caller of     *)
(* sign as an error, not as a vector.                                      *)
SignFailureSurfaced ==
    (last.op = "sign" /\ last.status # 0) => last.ret.kind = "Err"

(* C7: a nonzero status of the key generation primitive reaches the caller *)
(* of gen_keypair as an error, not as a pair of keys.                      *)
KeygenFailureSurfaced ==
    (last.op = "gen_keypair" /\ last.status # 0) => last.ret.kind = "Err"

(* C8: short input.  verify on fewer than 64 bytes gives None, whatever    *)
(* the public key.                                                         *)
ShortRejected ==
    (last.op = "verify" /\ Len(last.sm) < SIGNATUREBYTES)
        => last.ret = [kind |-> "None"]

ShortRejectedWitness ==
    /\ last.op = "verify"
    /\ Len(last.sm) = SIGNATUREBYTES - 1
    /\ last.ret = [kind |-> "None"]

(* C9: a call of gen_keypair, sign or verify made before the library is    *)
(* initialized returns an initialization error, or initializes it.         *)
InitEnforced ==
    (last.op # "none" /\ ~last.init)
        => (last.ret.kind = "InitializationError" \/ initialized)

(* C10: independence.  A call that a thread has finished, whatever the     *)
(* other threads did meanwhile, returned what the function returns when    *)
(* run alone on its arguments, and the values it borrowed are unchanged.   *)
Alone(c) ==
    CASE c.op = "gen_keypair" -> gen_keypair(c.seed, c.status)
      [] c.op = "sign" -> sign(c.m, c.key, c.status)
      [] c.op = "verify" -> verify(c.sm, c.key)

ArgsHeld(c) ==
    CASE c.op = "gen_keypair" -> TRUE
      [] c.op = "sign" -> m = c.m /\ sk = [state |-> "live", buf |-> c.key]
      [] c.op = "verify" -> sm = c.sm /\ pk = [state |-> "live", buf |-> c.key]

Independent ==
    \A t \in Threads :
        pc[t] = "done" => (rets[t] = Alone(call[t]) /\ ArgsHeld(call[t]))

IndependentWitness ==
    \E t \in Threads, u \in Threads :
        /\ t # u
        /\ pc[t] = "done" /\ call[t].op = "sign"
        /\ pc[u] = "called" /\ call[u].op = "verify"

====
